---------------------------- MODULE Spec2Model ----------------------------
(***************************************************************************)
(* A model of Omni_Diary.py: the diary/calendar store (DiaryApp), the      *)
(* retrieval-context builder (prepare_rag_context), the prompt formatter   *)
(* (format_rag_context) and the background analysis request (LLMQuery).    *)
(*                                                                         *)
(* Strings are sequences.  A timestamp key "yyyy-MM-dd HH:mm" is the       *)
(* sequence of its numeric fields <<y, m, d, hh, mm>>; a key of any other  *)
(* shape is a string that QDateTime.fromString cannot parse.  Free text    *)
(* is a sequence of characters.                                            *)
(*                                                                         *)
(* The state is what the handlers read and write of the two mappings, the  *)
(* two documents, the worker threads and the analysis widgets; the         *)
(* calendar's highlighting and the contents of the input fields, which no  *)
(* handler reads back, are left out (the fields are the handlers' inputs). *)
(***************************************************************************)
EXTENDS Integers, Sequences, FiniteSets, TLC

\* ------------------------------------------------------------------ bounds
MaxEntries == 2      \* entries over the two mappings of a context-builder run
MaxRequests == 2     \* LLMQuery threads started in one run of the application
MaxSaves == 2        \* save handlers invoked in one run of the application

\* ------------------------------------------------------- program constants
RecentDays == 7          \* -7 <= days_difference, addDays(-7)
UpcomingDays == 14       \* days_difference <= 14, addDays(14)
UrgentDays == 3          \* is_urgent: days_difference <= 3
TruncLen == 200          \* entry['content'][:200]

\* ------------------------------------------------------------- text (str)
IsSpace(c) == c = " "

RECURSIVE LStrip(_)
LStrip(s) == IF s # <<>> /\ IsSpace(Head(s)) THEN LStrip(Tail(s)) ELSE s

RECURSIVE RStrip(_)
RStrip(s) ==
    IF s # <<>> /\ IsSpace(s[Len(s)]) THEN RStrip(SubSeq(s, 1, Len(s) - 1)) ELSE s

\* a strip that leaves the trailing whitespace
StripMutant(s) == LStrip(s)
\* str.strip(): leading and trailing whitespace removed
Strip(s) == RStrip(LStrip(s))

\* lexicographic order of two strings (Python's < on str)
RECURSIVE StrLess(_, _)
StrLess(a, b) ==
    IF b = <<>> THEN FALSE
    ELSE IF a = <<>> THEN TRUE
    ELSE IF Head(a) # Head(b) THEN Head(a) < Head(b)
    ELSE StrLess(Tail(a), Tail(b))

\* --------------------------------------------------- QDate / QDateTime
IsLeap(y) == (y % 4 = 0 /\ y % 100 # 0) \/ y % 400 = 0

DaysInMonth(y, m) ==
    IF m = 2 THEN (IF IsLeap(y) THEN 29 ELSE 28)
    ELSE IF m \in {4, 6, 9, 11} THEN 30 ELSE 31

DaysBeforeYear(y) ==
    365 * (y - 1) + ((y - 1) \div 4) - ((y - 1) \div 100) + ((y - 1) \div 400)

RECURSIVE DaysBeforeMonth(_, _)
DaysBeforeMonth(y, m) ==
    IF m = 1 THEN 0 ELSE DaysBeforeMonth(y, m - 1) + DaysInMonth(y, m - 1)

\* day number of a calendar date (QDate's julian day, up to a fixed offset)
ToJd(y, m, d) == DaysBeforeYear(y) + DaysBeforeMonth(y, m) + d

\* the calendar date <<y, m, d>> of a day number of the years 2023 to 2025
FromJd(jd) ==
    LET y == CHOOSE yy \in 2023..2025 :
                 DaysBeforeYear(yy) < jd /\ jd <= DaysBeforeYear(yy + 1)
        n == jd - DaysBeforeYear(y)
        m == CHOOSE mm \in 1..12 :
                 DaysBeforeMonth(y, mm) < n
                 /\ n <= DaysBeforeMonth(y, mm) + DaysInMonth(y, mm)
    IN  <<y, m, n - DaysBeforeMonth(y, m)>>

\* the invalid QDateTime
InvalidDateTime == [valid |-> FALSE, jd |-> 0, hh |-> 0, mm |-> 0, ss |-> 0]

\* a valid QDateTime
MkDateTime(y, m, d, hh, mm, ss) ==
    [valid |-> TRUE, jd |-> ToJd(y, m, d), hh |-> hh, mm |-> mm, ss |-> ss]

\* QDateTime.fromString(s, "yyyy-MM-dd HH:mm"): invalid unless s has the five
\* fields and they name a calendar date and a time of day
FromString(s) ==
    IF /\ Len(s) = 5
       /\ s[1] \in 1..9999
       /\ s[2] \in 1..12
       /\ s[3] \in 1..DaysInMonth(s[1], s[2])
       /\ s[4] \in 0..23
       /\ s[5] \in 0..59
    THEN MkDateTime(s[1], s[2], s[3], s[4], s[5], 0)
    ELSE InvalidDateTime

\* QDateTime.toString("yyyy-MM-dd HH:mm")
ToStringMinutes(dt) == FromJd(dt.jd) \o <<dt.hh, dt.mm>>

\* QDateTime.toString("yyyy-MM-dd HH:mm:ss")
ToStringSeconds(dt) == FromJd(dt.jd) \o <<dt.hh, dt.mm, dt.ss>>

\* QDateTime.toString("yyyy-MM-dd")
ToStringDate(dt) == FromJd(dt.jd)

\* QDateTime.addDays(n)
AddDays(dt, n) == [dt EXCEPT !.jd = dt.jd + n]

\* QDateTime.daysTo: the number of midnights from a to b, date().daysTo(date());
\* QDate.daysTo is 0 when either date is invalid
DaysTo(a, b) == IF a.valid /\ b.valid THEN b.jd - a.jd ELSE 0

Abs(n) == IF n < 0 THEN -n ELSE n

\* ------------------------------------------------------ dict (ordered)
\* A Python dict is the sequence of its <<key, value>> items in insertion order.
\* d[k] = v: the value of an existing key is replaced in place, a new key is
\* appended
RECURSIVE DictPut(_, _, _)
DictPut(d, k, v) ==
    IF d = <<>> THEN <<(<<k, v>>)>>
    ELSE IF Head(d)[1] = k THEN <<(<<k, v>>)>> \o Tail(d)
    ELSE <<Head(d)>> \o DictPut(Tail(d), k, v)

\* ------------------------------------------------- prepare_rag_context
\* list.sort(key=lambda x: x["datetime"]): a stable sort, as an insertion sort
RECURSIVE InsertByDatetime(_, _)
InsertByDatetime(x, s) ==
    IF s = <<>> THEN <<x>>
    ELSE IF StrLess(x.datetime, Head(s).datetime) THEN <<x>> \o s
    ELSE <<Head(s)>> \o InsertByDatetime(x, Tail(s))

RECURSIVE SortByDatetime(_)
SortByDatetime(s) ==
    IF s = <<>> THEN <<>>
    ELSE InsertByDatetime(s[Len(s)], SortByDatetime(SubSeq(s, 1, Len(s) - 1)))

\* the test of line 225 on days_difference = entry_datetime.daysTo(current)
IsRecent(days_difference) == -RecentDays <= days_difference /\ days_difference <= 0

\* the test of line 230 with the last day of the window left out
IsUpcomingMutant(days_difference) == 0 <= days_difference /\ days_difference < UpcomingDays
\* the test of line 230 on days_difference = current.daysTo(event_datetime)
IsUpcoming(days_difference) == 0 <= days_difference /\ days_difference <= UpcomingDays

\* the loop of lines 222-226 over diary_entries.items()
RECURSIVE RecentEvents(_, _)
RecentEvents(current_datetime, items) ==
    IF items = <<>> THEN <<>>
    ELSE LET datetime_str == Head(items)[1]
             entry == Head(items)[2]
             entry_datetime == FromString(datetime_str)
             days_difference == DaysTo(entry_datetime, current_datetime)
         IN  (IF IsRecent(days_difference)
              THEN <<[datetime |-> datetime_str, content |-> entry,
                      days_ago |-> Abs(days_difference)]>>
              ELSE <<>>)
             \o RecentEvents(current_datetime, Tail(items))

\* the loop of lines 227-230 over calendar_events.items()
RECURSIVE UpcomingEvents(_, _)
UpcomingEvents(current_datetime, items) ==
    IF items = <<>> THEN <<>>
    ELSE LET datetime_str == Head(items)[1]
             event == Head(items)[2]
             event_datetime == FromString(datetime_str)
             days_difference == DaysTo(current_datetime, event_datetime)
         IN  (IF IsUpcoming(days_difference)
              THEN <<[datetime |-> datetime_str, event |-> event,
                      days_until |-> days_difference,
                      is_urgent |-> days_difference <= UrgentDays]>>
              ELSE <<>>)
             \o UpcomingEvents(current_datetime, Tail(items))

\* DiaryApp.prepare_rag_context
PrepareRagContext(current_datetime, diary, events) ==
    [current_datetime |-> ToStringSeconds(current_datetime),
     date_range |-> [start |-> ToStringDate(AddDays(current_datetime, -RecentDays)),
                     end |-> ToStringDate(AddDays(current_datetime, UpcomingDays))],
     recent_events |-> SortByDatetime(RecentEvents(current_datetime, diary)),
     upcoming_events |->
         SortByDatetime(UpcomingEvents(current_datetime, events))]

\* ---------------------------------------------------- format_rag_context
\* one "[datetime] content[:200]..." line of the diary section
DiaryLine(entry) ==
    [datetime |-> entry.datetime,
     text |-> IF Len(entry.content) > TruncLen
              THEN SubSeq(entry.content, 1, TruncLen) \o <<".", ".", ".">>
              ELSE entry.content]

\* one "[datetime] event" line of the events section
EventLine(event) == [datetime |-> event.datetime, text |-> event.event]

\* LLMQuery.format_rag_context: each section is the list of its lines, sorted
\* by datetime, joined with newlines
FormatRagContext(context) ==
    [current_datetime |-> context.current_datetime,
     date_range |-> context.date_range,
     formatted_diary_entries |->
         LET s == SortByDatetime(context.recent_events)
         IN  [i \in 1..Len(s) |-> DiaryLine(s[i])],
     formatted_calendar_events |->
         LET s == SortByDatetime(context.upcoming_events)
         IN  [i \in 1..Len(s) |-> EventLine(s[i])]]


\* ------------------------------------------------------------------ state
VARIABLES
    diary_entries,      \* DiaryApp.diary_entries: dict, timestamp key -> content
    calendar_events,    \* DiaryApp.calendar_events: dict, key -> description
    diary_file,         \* the document diary_entries.json on disk
    events_file,        \* the document calendar_events.json on disk
    threads,            \* every LLMQuery started, in order; the last is llm_thread
    signals,            \* result_ready emissions queued for the main thread
    progress_visible,   \* progress_bar.isVisible()
    analysis_label,     \* analysis_label.text()
    last_op,            \* the main-thread handler that ran last, and its dialog
    nsaves,             \* save handlers invoked so far
    aborted             \* the process was terminated

vars == <<diary_entries, calendar_events, diary_file, events_file, threads,
          signals, progress_visible, analysis_label, last_op, nsaves, aborted>>

\* ------------------------------------------------------------ DataValidator
\* a validation that does not strip the entry
ValidateEntryMutant(entry) == entry # <<>>
\* DataValidator.validate_entry
ValidateEntry(entry) == Strip(entry) # <<>>

\* DataValidator.validate_event
ValidateEvent(datetime_str, description) ==
    datetime_str # <<>> /\ Strip(description) # <<>>

\* ---------------------------------------------------- load_json / save_json
\* A document on disk: the items json.dump has written, and whether the text
\* is a complete JSON object (the closing brace was written).
NoFile == [exists |-> FALSE, items |-> <<>>, complete |-> FALSE]

Document(items) == [exists |-> TRUE, items |-> items, complete |-> TRUE]

\* DiaryApp.load_json: {} when the file is missing or json.load fails
LoadJson(file) == IF file.exists /\ file.complete THEN file.items ELSE <<>>

\* how a save_json call can go: open() fails; the write fails after n items;
\* the whole document is written
IoOutcomes(data) ==
    {[kind |-> "ok", n |-> Len(data)], [kind |-> "open_failed", n |-> 0]}
    \cup {[kind |-> "write_failed", n |-> n] : n \in 0..Len(data)}

\* DiaryApp.save_json: open(filename, "w") truncates the file, json.dump then
\* writes the items one after the other and the closing brace last
SaveJson(data, file, io) ==
    IF io.kind = "open_failed" THEN file
    ELSE IF io.kind = "write_failed"
    THEN [exists |-> TRUE, items |-> SubSeq(data, 1, io.n), complete |-> FALSE]
    ELSE Document(data)

\* the message of the dialog save_json shows, if any
SaveJsonError(io) == IF io.kind = "ok" THEN <<>> ELSE <<"Error saving">>

\* ------------------------------------------------------------ save handlers
\* DiaryApp.save_diary_entry; its inputs are the widget's date-time and text
\* and how the write to disk goes
SaveDiaryEntry(dt, entry, io_kind) ==
    /\ ~aborted
    /\ nsaves < MaxSaves
    /\ nsaves' = nsaves + 1
    /\ LET datetime_str == ToStringMinutes(dt)
       IN  IF ValidateEntry(entry)
           THEN \E io \in IoOutcomes(DictPut(diary_entries, datetime_str, entry)) :
                    /\ io.kind = io_kind
                    /\ diary_entries' = DictPut(diary_entries, datetime_str, entry)
                    /\ diary_file' = SaveJson(diary_entries', diary_file, io)
                    /\ last_op' = [op |-> "save_diary_entry", arg |-> entry,
                                   dialogs |-> SaveJsonError(io)
                                       \o <<"Diary entry saved successfully.">>]
           ELSE /\ UNCHANGED <<diary_entries, diary_file>>
                /\ last_op' = [op |-> "save_diary_entry", arg |-> entry,
                               dialogs |-> <<"Diary entry cannot be empty.">>]
    /\ UNCHANGED <<calendar_events, events_file, threads, signals,
                   progress_visible, analysis_label, aborted>>

\* DiaryApp.save_calendar_event; its inputs are the widget's date-time and text
\* and how the write to disk goes
SaveCalendarEvent(dt, text, io_kind) ==
    /\ ~aborted
    /\ nsaves < MaxSaves
    /\ nsaves' = nsaves + 1
    /\ LET datetime_str == ToStringMinutes(dt)
           description == Strip(text)
       IN  IF ValidateEvent(datetime_str, description)
           THEN \E io \in IoOutcomes(DictPut(calendar_events, datetime_str, description)) :
                    /\ io.kind = io_kind
                    /\ calendar_events' =
                           DictPut(calendar_events, datetime_str, description)
                    /\ events_file' = SaveJson(calendar_events', events_file, io)
                    /\ last_op' = [op |-> "save_calendar_event", arg |-> text,
                                   dialogs |-> SaveJsonError(io)
                                       \o <<"Event saved successfully.">>]
           ELSE /\ UNCHANGED <<calendar_events, events_file>>
                /\ last_op' = [op |-> "save_calendar_event", arg |-> text,
                               dialogs |-> <<"Event description cannot be empty.">>]
    /\ UNCHANGED <<diary_entries, diary_file, threads, signals,
                   progress_visible, analysis_label, aborted>>

\* ------------------------------------------------------------ JSON values
\* A parsed JSON value is [t |-> its Python type, v |-> its content]: a dict is
\* the sequence of its <<name, value>> items, a list the sequence of its
\* elements, a str the sequence of its characters.
JDict(items) == [t |-> "dict", v |-> items]
JList(elems) == [t |-> "list", v |-> elems]
JStr(chars) == [t |-> "str", v |-> chars]
JInt(n) == [t |-> "int", v |-> n]
JNull == [t |-> "NoneType", v |-> 0]

\* Python's truth value of a parsed value
Truthy(j) ==
    IF j.t \in {"dict", "list", "str"} THEN j.v # <<>>
    ELSE IF j.t = "int" THEN j.v # 0
    ELSE FALSE

\* name in d, for a dict d
JHas(d, name) == \E i \in 1..Len(d.v) : d.v[i][1] = name

\* d[name], for a dict d that has it
JGet(d, name) == d.v[CHOOSE i \in 1..Len(d.v) : d.v[i][1] = name][2]

\* ----------------------------------------------------- LLMQuery.query_llm
NoAnalysis == <<"No analysis available">>

Returned(text) == [raised |-> FALSE, value |-> text, message |-> "none"]
Raised(message) == [raised |-> TRUE, value |-> <<>>, message |-> message]

\* the expression of line 55 on the parsed body: its value, or the exception
\* Python raises while evaluating it (TypeError, KeyError, AttributeError)
FirstChoiceText(result) ==
    IF result.t \in {"int", "NoneType"}
    THEN Raised("TypeError")                \* "choices" in result
    ELSE IF result.t # "dict" \/ ~JHas(result, "choices")
    THEN Returned(NoAnalysis)
    ELSE LET choices == JGet(result, "choices")
         IN  IF ~Truthy(choices) THEN Returned(NoAnalysis)
             ELSE IF choices.t = "int" THEN Raised("TypeError")    \* choices[0]
             ELSE IF choices.t = "dict" THEN Raised("KeyError")    \* choices[0]
             ELSE IF choices.t = "str" THEN Raised("AttributeError") \* str.get
             ELSE LET first == choices.v[1]
                  IN  IF first.t # "dict" THEN Raised("AttributeError")  \* .get
                      ELSE LET text == IF JHas(first, "text")
                                       THEN JGet(first, "text")
                                       ELSE JStr(NoAnalysis)
                           IN  IF text.t # "str"
                               THEN Raised("AttributeError")       \* .strip
                               ELSE Returned(Strip(text.v))

\* What the endpoint does with one request.  net: "ok" when requests.post got
\* a response, else the exception it raises; status: the HTTP status; json:
\* "parsed" when the body is JSON text, else the exception response.json()
\* raises (requests.JSONDecodeError since requests 2.27, json.JSONDecodeError
\* before); body: the parsed value.
Failure(net) == [net |-> net, status |-> 0, json |-> "parsed", body |-> JNull]
Answer(status, json, body) ==
    [net |-> "ok", status |-> status, json |-> json, body |-> body]

\* the classes of requests.exceptions.RequestException
IsRequestException(class) ==
    class \in {"ConnectionError", "Timeout", "HTTPError",
               "requests.JSONDecodeError"}

\* the exception lines 54-55 raise, or the value line 55 returns
TryBlock(response) ==
    IF response.net # "ok" THEN Raised(response.net)         \* requests.post
    ELSE IF response.status \in 400..599 THEN Raised("HTTPError") \* raise_for_status
    ELSE IF response.json # "parsed" THEN Raised(response.json)   \* response.json()
    ELSE FirstChoiceText(response.body)

\* the two except clauses of lines 56-57, in their order
ExceptClauses(attempt) ==
    IF ~attempt.raised THEN attempt
    ELSE IF IsRequestException(attempt.message)
    THEN Raised("Failed to connect to LLM")
    ELSE Raised("Error processing LLM response")

\* LLMQuery.query_llm, from the response on
QueryLlm(response) == ExceptClauses(TryBlock(response))

\* the prompt of lines 39-50: the fixed preamble and the formatted context
SystemPrompt == "You are a helpful diary assistant"

\* a query that reads the mappings when the thread runs
QueryContextMutant(query) ==
    LET c == query.context.current_datetime
    IN  PrepareRagContext(MkDateTime(c[1], c[2], c[3], c[4], c[5], c[6]),
                          diary_entries, calendar_events)
\* query["context"] of line 39
QueryContext(query) == query.context

Prompt(query) ==
    [system |-> SystemPrompt, user |-> FormatRagContext(QueryContext(query))]

\* ------------------------------------------------------- analysis request
NoPrompt == [system |-> "", user |-> <<>>]
NoResponse == Failure("none")

\* DiaryApp.fetch_closest_events, with QDateTime.currentDateTime() as input.
\* diary0 and events0 are history: the mappings as the handler read them.
FetchClosestEvents(current_datetime) ==
    /\ ~aborted
    /\ Len(threads) < MaxRequests
    /\ LET context ==
               PrepareRagContext(current_datetime, diary_entries, calendar_events)
           query == [context |-> context]
       IN  threads' = Append(threads,
               [pc |-> "started", query |-> query,
                diary0 |-> diary_entries, events0 |-> calendar_events,
                now0 |-> current_datetime,
                prompt |-> NoPrompt, response |-> NoResponse,
                outcome |-> Returned(<<>>), emitted |-> FALSE,
                report |-> "none"])
    /\ progress_visible' = TRUE
    /\ last_op' = [op |-> "fetch_closest_events", arg |-> <<>>, dialogs |-> <<>>]
    /\ UNCHANGED <<diary_entries, calendar_events, diary_file, events_file,
                   signals, analysis_label, nsaves, aborted>>

\* LLMQuery.run, first half: query_llm formats the context, builds the prompt
\* and posts it (lines 39-54)
ThreadPost(i) ==
    /\ ~aborted
    /\ i \in 1..Len(threads)
    /\ threads[i].pc = "started"
    /\ threads' = [threads EXCEPT ![i].pc = "posted",
                                  ![i].prompt = Prompt(threads[i].query)]
    /\ UNCHANGED <<diary_entries, calendar_events, diary_file, events_file,
                   signals, progress_visible, analysis_label, last_op, nsaves,
                   aborted>>

\* How the run of thread i can end.  Two of its calls have no defined
\* behaviour in Qt, and each either goes through or terminates the process:
\* ErrorHandler.show_error opens a QMessageBox outside the GUI thread; and an
\* LLMQuery that a later fetch_closest_events replaced as self.llm_thread is
\* referenced by nothing but its own running run(), so that the QThread is
\* destroyed while Qt still counts it as running.
RunEndings(i, outcome) ==
    {"returns"}
    \cup (IF outcome.raised THEN {"abort"} ELSE {})
    \cup (IF i < Len(threads) THEN {"abort"} ELSE {})

\* LLMQuery.run, second half: the request ends; query_llm returns and
\* result_ready is emitted (queued to the main thread), or it raises and the
\* except clause of line 23 calls show_error
ThreadRespond(i, response) ==
    /\ ~aborted
    /\ i \in 1..Len(threads)
    /\ threads[i].pc = "posted"
    /\ LET outcome == QueryLlm(response)
       IN  \E ending \in RunEndings(i, outcome) :
               /\ threads' = [threads EXCEPT
                      ![i].pc = "finished",
                      ![i].response = response,
                      ![i].outcome = outcome,
                      ![i].emitted = ~outcome.raised,
                      ![i].report = outcome.message]
               /\ signals' = IF outcome.raised THEN signals
                             ELSE Append(signals, outcome.value)
               /\ aborted' = (ending = "abort")
    /\ UNCHANGED <<diary_entries, calendar_events, diary_file, events_file,
                   progress_visible, analysis_label, last_op, nsaves>>

\* DiaryApp.display_analysis_result, the slot of result_ready, run by the main
\* thread for the oldest queued emission
DisplayAnalysisResult ==
    /\ ~aborted
    /\ signals # <<>>
    /\ progress_visible' = FALSE
    /\ analysis_label' = Head(signals)
    /\ signals' = Tail(signals)
    /\ UNCHANGED <<diary_entries, calendar_events, diary_file, events_file,
                   threads, last_op, nsaves, aborted>>

\* ------------------------------------------------------------------ inputs
\* QDateTime values of the clock and of the date-time widget
Now1 == MkDateTime(2024, 6, 10, 9, 0, 0)
Now2 == MkDateTime(2024, 6, 11, 0, 5, 30)
Widget1 == MkDateTime(2024, 6, 10, 8, 0, 0)
Widget2 == MkDateTime(2024, 6, 12, 10, 0, 0)

Texts == {<<>>, <<" ">>, <<"a">>, <<" ", "a", " ">>}

\* DiaryApp.__init__: both mappings are loaded from the documents on disk
InitWith(diary_docs, events_docs) ==
    /\ diary_file \in diary_docs
    /\ events_file \in events_docs
    /\ diary_entries = LoadJson(diary_file)
    /\ calendar_events = LoadJson(events_file)
    /\ threads = <<>>
    /\ signals = <<>>
    /\ progress_visible = FALSE
    /\ analysis_label = <<>>
    /\ last_op = [op |-> "__init__", arg |-> <<>>, dialogs |-> <<>>]
    /\ nsaves = 0
    /\ aborted = FALSE

\* timestamp keys around Now1 and Now2, and three strings that are none:
\* "2024-06-31 09:00", "2024-06-10" and ""
KeyUniverse ==
    {<<2024, 6, 2, 9, 0>>, <<2024, 6, 3, 8, 0>>, <<2024, 6, 9, 20, 0>>,
     <<2024, 6, 10, 8, 0>>, <<2024, 6, 10, 23, 0>>, <<2024, 6, 12, 10, 0>>,
     <<2024, 6, 13, 9, 0>>, <<2024, 6, 14, 9, 0>>, <<2024, 6, 17, 9, 0>>,
     <<2024, 6, 18, 9, 0>>, <<2024, 6, 24, 23, 59>>, <<2024, 6, 25, 0, 0>>,
     <<2024, 7, 1, 10, 0>>,
     <<2024, 6, 31, 9, 0>>, <<2024, 6, 10>>, <<>>}

\* the dicts of n items with distinct keys of KeyUniverse
DictsOfLen(n) ==
    {d \in [1..n -> KeyUniverse \X {<<"a">>}] :
        \A i, j \in 1..n : i # j => d[i][1] # d[j][1]}

\* the complete documents of at most MaxEntries items
Documents == {Document(d) : d \in UNION {DictsOfLen(n) : n \in 0..MaxEntries}}

\* ------------------------------------------- the context builder on its own
InitCtx ==
    /\ InitWith(Documents, Documents)
    /\ Len(diary_entries) + Len(calendar_events) <= MaxEntries

NextCtx == \E now \in {Now1, Now2} : FetchClosestEvents(now)

SpecCtx == InitCtx /\ [][NextCtx]_vars

\* ------------------------------------------------------- the application
\* documents the application may find at startup: none, one with an entry,
\* one with a key that is no timestamp, one that is not JSON
StartEntry == Document(<< <<(<<2024, 6, 10, 8, 0>>), <<"b">> >> >>)

StartDocuments ==
    {NoFile,
     StartEntry,
     Document(<< <<(<<2024, 6, 10>>), <<"a">> >> >>),
     [exists |-> TRUE, items |-> <<>>, complete |-> FALSE]}

\* what the completion endpoint may do
Responses ==
    <<Failure("ConnectionError"),
      Failure("Timeout"),
      Answer(500, "parsed", JNull),
      Answer(200, "requests.JSONDecodeError", JNull),
      Answer(200, "json.JSONDecodeError", JNull),
      Answer(200, "parsed", JInt(5)),
      Answer(200, "parsed", JList(<<>>)),
      Answer(200, "parsed", JDict(<<>>)),
      Answer(200, "parsed", JDict(<< <<"choices", JList(<<>>)>> >>)),
      Answer(200, "parsed", JDict(<< <<"choices", JNull>> >>)),
      Answer(200, "parsed", JDict(<< <<"choices", JList(<<JDict(<<>>)>>)>> >>)),
      Answer(200, "parsed", JDict(<< <<"choices", JList(<<JInt(5)>>)>> >>)),
      Answer(200, "parsed",
             JDict(<< <<"choices", JList(<<JDict(<< <<"text", JNull>> >>)>>)>> >>)),
      Answer(200, "parsed",
             JDict(<< <<"choices",
                        JList(<<JDict(<< <<"text", JStr(<<" ", "a", " ">>)>> >>)>>)>> >>)),
      Answer(200, "parsed",
             JDict(<< <<"choices",
                        JList(<<JDict(<< <<"text", JStr(<<"a", " ", "a">>)>> >>),
                                JDict(<< <<"text", JStr(<<"b">>)>> >>)>>)>> >>))>>

\* the ways a write to disk can go
IoKinds == {"ok", "open_failed", "write_failed"}

\* the handlers of the two Save buttons
Save(texts, io_kinds) ==
    \/ \E dt \in {Widget1, Widget2}, entry \in texts, io_kind \in io_kinds :
           SaveDiaryEntry(dt, entry, io_kind)
    \/ \E dt \in {Widget1, Widget2}, text \in texts, io_kind \in io_kinds :
           SaveCalendarEvent(dt, text, io_kind)

\* the analysis request: the Analyze button, the worker thread, the slot
Analyze(nows, responses) ==
    \/ \E now \in nows : FetchClosestEvents(now)
    \/ \E i \in 1..Len(threads) : ThreadPost(i)
    \/ \E i \in 1..Len(threads), k \in 1..Len(responses) :
           ThreadRespond(i, responses[k])
    \/ DisplayAnalysisResult

\* the application: edits interleaved with analysis requests that end with a
\* result or with a timeout
Init == InitWith({NoFile, StartEntry}, {NoFile})

Next ==
    \/ Save({<<"a">>}, {"ok"})
    \/ Analyze({Now1}, <<Responses[2], Responses[Len(Responses)]>>)

Spec == Init /\ [][Next]_vars

\* the save handlers and the documents on disk
InitSave == InitWith(StartDocuments, StartDocuments)

NextSave == Save(Texts, IoKinds)

SpecSave == InitSave /\ [][NextSave]_vars

\* the analysis request against every behaviour of the endpoint
InitLLM == InitWith({StartEntry}, {NoFile})

NextLLM == Analyze({Now1}, Responses)

SpecLLM == InitLLM /\ [][NextLLM]_vars

\* ---------------------------------------------------------------- claims
\* notions the claims are stated in
WellFormedKey(k) == FromString(k).valid

\* whole days from the date of key k to the date of now
DaysFromKey(k, now) == now.jd - ToJd(k[1], k[2], k[3])

AllWellFormed(d) == \A j \in 1..Len(d) : WellFormedKey(d[j][1])

Listed(list, k) == \E n \in 1..Len(list) : list[n].datetime = k

AllSpace(text) == \A n \in 1..Len(text) : text[n] = " "

\* r is s without its leading and trailing whitespace
IsTrimOf(r, s) ==
    /\ r # <<>> => (r[1] # " " /\ r[Len(r)] # " ")
    /\ \E lead \in 0..Len(s) :
           /\ lead + Len(r) <= Len(s)
           /\ SubSeq(s, lead + 1, lead + Len(r)) = r
           /\ \A n \in 1..Len(s) : (n <= lead \/ n > lead + Len(r)) => s[n] = " "

Outstanding == {i \in 1..Len(threads) : threads[i].pc # "finished"}

\* C1: over a diary with well-formed keys, an entry is in recent_events if and
\* only if it is 0 to 7 whole days old at `now`.
C1_RecentWindow ==
    \A i \in 1..Len(threads) :
        LET t == threads[i]
        IN  AllWellFormed(t.diary0) =>
                \A j \in 1..Len(t.diary0) :
                    LET k == t.diary0[j][1]
                    IN  Listed(t.query.context.recent_events, k)
                        <=> (0 <= DaysFromKey(k, t.now0) /\ DaysFromKey(k, t.now0) <= 7)

\* the keys of a context's lists that are timestamps
WellFormedListed(list) ==
    {list[n].datetime : n \in {m \in 1..Len(list) : WellFormedKey(list[m].datetime)}}

\* the items of a dict whose keys are timestamps
RECURSIVE WellFormedItems(_)
WellFormedItems(d) ==
    IF d = <<>> THEN <<>>
    ELSE (IF WellFormedKey(Head(d)[1]) THEN <<Head(d)>> ELSE <<>>)
         \o WellFormedItems(Tail(d))

\* C2: a key that is no timestamp is in neither list of the context, and the
\* well-formed items listed are those listed without it.
C2_MalformedSkipped ==
    \A i \in 1..Len(threads) :
        LET t == threads[i]
            c == t.query.context
            clean == PrepareRagContext(t.now0, WellFormedItems(t.diary0),
                                       WellFormedItems(t.events0))
        IN  /\ \A n \in 1..Len(c.recent_events) :
                   WellFormedKey(c.recent_events[n].datetime)
            /\ \A n \in 1..Len(c.upcoming_events) :
                   WellFormedKey(c.upcoming_events[n].datetime)
            /\ WellFormedListed(c.recent_events) = WellFormedListed(clean.recent_events)
            /\ WellFormedListed(c.upcoming_events)
                   = WellFormedListed(clean.upcoming_events)

\* C3: at most one analysis request is outstanding at any time.
C3_OneOutstanding == Cardinality(Outstanding) <= 1

\* C4: a save either replaces the document by the whole mapping or leaves the
\* document as it was.
C4_AtomicWrite ==
    [][/\ diary_file' = diary_file \/ diary_file' = Document(diary_entries')
       /\ events_file' = events_file \/ events_file' = Document(calendar_events')]_vars

\* C5: a save handler given empty or whitespace-only text shows its error and
\* changes neither mapping and neither document.
C5_EmptyRejected ==
    [][(/\ nsaves' = nsaves + 1
        /\ AllSpace(last_op'.arg))
       => /\ UNCHANGED <<diary_entries, calendar_events, diary_file, events_file>>
          /\ last_op'.op = "save_diary_entry"
                 => last_op'.dialogs = <<"Diary entry cannot be empty.">>
          /\ last_op'.op = "save_calendar_event"
                 => last_op'.dialogs = <<"Event description cannot be empty.">>]_vars

C5_Witness ==
    /\ last_op.op = "save_diary_entry"
    /\ last_op.arg = <<" ">>
    /\ diary_entries # <<>>
    /\ diary_file = Document(diary_entries)

\* C6: an event with a well-formed key is in upcoming_events if and only if
\* the whole-day difference d from now to it is 0 to 14; it is listed with
\* days_until = d and is_urgent exactly when d <= 3.
C6_UpcomingWindow ==
    \A i \in 1..Len(threads) :
        LET t == threads[i]
            up == t.query.context.upcoming_events
        IN  \A j \in 1..Len(t.events0) :
                LET k == t.events0[j][1]
                    d == -DaysFromKey(k, t.now0)
                IN  WellFormedKey(k) =>
                        /\ Listed(up, k) <=> (0 <= d /\ d <= 14)
                        /\ \A n \in 1..Len(up) :
                               up[n].datetime = k =>
                                   /\ up[n].days_until = d
                                   /\ up[n].is_urgent <=> (d <= 3)

C6_Witness ==
    \E i \in 1..Len(threads) :
        LET t == threads[i]
            up == t.query.context.upcoming_events
        IN  /\ t.now0 = Now1
            /\ \E n \in 1..Len(up) :
                   up[n].datetime = <<2024, 6, 24, 23, 59>> /\ ~up[n].is_urgent
            /\ \E j \in 1..Len(t.events0) :
                   t.events0[j][1] = <<2024, 7, 1, 10, 0>>
            /\ Len(up) = 1

\* C7: on a success status and a parsed body, query_llm returns the first
\* choice's text without its leading and trailing whitespace, and "No analysis
\* available" when the body has no choices or an empty list of them; either is
\* emitted as a result and no error is reported.
C7_FirstChoice ==
    \A i \in 1..Len(threads) :
        LET t == threads[i]
            r == t.response
        IN  (/\ t.pc = "finished"
             /\ r.net = "ok" /\ r.status \in 200..299 /\ r.json = "parsed"
             /\ r.body.t = "dict")
            => /\ (\/ ~JHas(r.body, "choices")
                   \/ (/\ JGet(r.body, "choices").t = "list"
                       /\ JGet(r.body, "choices").v = <<>>))
                  => /\ ~t.outcome.raised
                     /\ t.outcome.value = <<"No analysis available">>
                     /\ t.emitted /\ t.report = "none"
               /\ (/\ JHas(r.body, "choices")
                   /\ JGet(r.body, "choices").t = "list"
                   /\ JGet(r.body, "choices").v # <<>>
                   /\ JGet(r.body, "choices").v[1].t = "dict"
                   /\ JHas(JGet(r.body, "choices").v[1], "text")
                   /\ JGet(JGet(r.body, "choices").v[1], "text").t = "str")
                  => /\ ~t.outcome.raised
                     /\ IsTrimOf(t.outcome.value,
                                 JGet(JGet(r.body, "choices").v[1], "text").v)
                     /\ t.emitted /\ t.report = "none"

C7_Witness ==
    /\ analysis_label = <<"a">>
    /\ \E i \in 1..Len(threads) :
           LET body == threads[i].response.body
           IN  /\ threads[i].pc = "finished"
               /\ threads[i].response.json = "parsed"
               /\ body.t = "dict" /\ JHas(body, "choices")
               /\ JGet(body, "choices").t = "list"
               /\ Len(JGet(body, "choices").v) = 1
               /\ threads[i].outcome.value = <<"a">>
               /\ threads[i].emitted
    /\ \E i \in 1..Len(threads) :
           LET body == threads[i].response.body
           IN  /\ threads[i].pc = "finished"
               /\ threads[i].response.json = "parsed"
               /\ body.t = "dict" /\ JHas(body, "choices")
               /\ JGet(body, "choices").t = "list"
               /\ JGet(body, "choices").v = <<>>
               /\ threads[i].outcome.value = NoAnalysis

\* C8: a request that fails is reported as a connectivity failure when the
\* endpoint is unreachable or times out and as a processing failure when the
\* body of a successful response cannot be interpreted, and it emits no
\* result.
C8_FailureKinds ==
    \A i \in 1..Len(threads) :
        LET t == threads[i]
        IN  (t.pc = "finished" /\ t.outcome.raised)
            => /\ t.response.net \in {"ConnectionError", "Timeout"}
                      => t.report = "Failed to connect to LLM"
               /\ (t.response.net = "ok" /\ t.response.status \in 200..299)
                      => t.report = "Error processing LLM response"
               /\ ~t.emitted

\* C8, its last part: no failed request terminates the process.
C8_NoTermination ==
    (\E i \in 1..Len(threads) : threads[i].outcome.raised) => ~aborted

\* C9: the context a request formats and the prompt it sends are those of the
\* two mappings as fetch_closest_events read them, whatever is saved while the
\* request is in flight.
C9_Snapshot ==
    \A i \in 1..Len(threads) :
        LET t == threads[i]
            c == PrepareRagContext(t.now0, t.diary0, t.events0)
        IN  /\ t.query.context = c
            /\ t.pc # "started"
                   => t.prompt = [system |-> SystemPrompt, user |-> FormatRagContext(c)]

C9_Witness ==
    \E i \in 1..Len(threads) :
        LET t == threads[i]
        IN  /\ t.pc = "posted"
            /\ t.diary0 # diary_entries
            /\ t.events0 # calendar_events
            /\ PrepareRagContext(t.now0, diary_entries, calendar_events).recent_events
                   # t.query.context.recent_events
            /\ PrepareRagContext(t.now0, diary_entries, calendar_events).upcoming_events
                   # t.query.context.upcoming_events

\* C10: when no analysis request is outstanding and no result waits to be
\* displayed, the progress bar is hidden.
C10_ProgressHidden ==
    (~aborted /\ Outstanding = {} /\ signals = <<>>) => ~progress_visible

=============================================================================
